---- MODULE Spec2Model ----
(***************************************************************************)
(* Model of the hnsd header chain engine, src/src/chain.c.                 *)
(*                                                                         *)
(* A header hash is modelled as the path of header contents from the root: *)
(* the hash of a header is its prev_block followed by <<time, bits,        *)
(* nonce>>.  This keeps the hash a function of the content, injective, and *)
(* free of cycles.  The zero hash (prev_block of the genesis header) is    *)
(* the empty path.  A pointer to a header is modelled by the header's      *)
(* hash: the chain keeps one object per hash.                              *)
(*                                                                         *)
(* 256-bit quantities (targets, work) are scaled to 20 bits and the bytes  *)
(* of the compact encoding to hexadecimal digits; the consensus constants  *)
(* of hsk-constants.h are scaled with them (window of 2 headers).          *)
(***************************************************************************)
EXTENDS Integers, Sequences, FiniteSets, TLC

VARIABLES hashes, heights, orphans, prevs, tip, height, genesis,
          rc, freed, reorganizing, firstAt, mode

vars == <<hashes, heights, orphans, prevs, tip, height, genesis,
          rc, freed, reorganizing, firstAt, mode>>

\* ------------------------------------------------------------------ bounds

\* Header times offered to the shallow pool are GenesisTime + 1..MaxTime.
MaxTime == 3
\* Headers of the shallow pool lie at most MaxDepth links below genesis.
MaxDepth == 2
\* The shallow pool offers no new orphan once orphans holds MaxOrphans; the
\* other pools offer orphans of at most MaxOrphans unknown parents.
MaxOrphans == 1

\* -------------------------------------------------------- program constants

NULL == "NULL"

HSK_SUCCESS == "HSK_SUCCESS"
HSK_ENOMEM == "HSK_ENOMEM"
HSK_ETIMETOONEW == "HSK_ETIMETOONEW"
HSK_EDUPLICATE == "HSK_EDUPLICATE"
HSK_EDUPLICATEORPHAN == "HSK_EDUPLICATEORPHAN"
HSK_ETIMETOOOLD == "HSK_ETIMETOOOLD"
HSK_EBADDIFFBITS == "HSK_EBADDIFFBITS"
\* The code the proof-of-work verifier returns for a bad solution.
HSK_EBADPOW == "HSK_EBADPOW"
\* Not a return code: an assert() of the code failed and the process aborted.
ABORTED == "ABORTED"

\* Width of a target or work value (256 in the code).
WorkBits == 20
\* One digit of the compact encoding (a byte, 256, in the code).
Digit == 16
\* Default compact target: exponent 3, mantissa 0x7ff.
HSK_BITS == 14335
\* Maximum target, the target of HSK_BITS.
HSK_LIMIT == 2047
HSK_TARGET_WINDOW == 2
HSK_TARGET_SPACING == 4
HSK_TARGET_TIMESPAN == HSK_TARGET_WINDOW * HSK_TARGET_SPACING
HSK_MIN_ACTUAL == HSK_TARGET_TIMESPAN \div 4
HSK_MAX_ACTUAL == HSK_TARGET_TIMESPAN * 4
HSK_NO_RETARGETTING == FALSE
HSK_TARGET_RESET == TRUE
\* Time of the hard-coded genesis header.
GenesisTime == 10000
TwoHours == 2 * 60 * 60

\* ------------------------------------------------------------------ helpers

Pow(b, e) == IF e = 0 THEN 1 ELSE
             LET RECURSIVE P(_)
                 P(k) == IF k = 0 THEN 1 ELSE b * P(k - 1)
             IN P(e)

\* C integer division truncates toward zero.
CDiv(a, b) == IF a >= 0 THEN a \div b ELSE -((-a) \div b)

\* qsort(median, size, ...) with qsort_cmp: ascending order.
RECURSIVE SortAsc(_)
SortAsc(s) ==
  IF Len(s) <= 1 THEN s
  ELSE LET m == CHOOSE i \in 1..Len(s) : \A j \in 1..Len(s) : s[i] <= s[j]
           rest == [k \in 1..(Len(s) - 1) |-> IF k < m THEN s[k] ELSE s[k + 1]]
       IN <<s[m]>> \o SortAsc(rest)

\* ------------------------------------------------------------------ headers

\* hsk_header_cache: the hash of a header.
hsk_header_cache(h) == Append(h.prev_block, <<h.time, h.bits, h.nonce>>)

\* A header as a caller hands it to hsk_chain_add.
Header(prev_block, time, bits, nonce) ==
  [prev_block |-> prev_block, time |-> time, bits |-> bits, nonce |-> nonce]

\* hsk_header_clone followed by hsk_header_cache: an owned copy with its hash
\* cached and the derived fields not yet computed.
hsk_header_clone(h) ==
  [hash |-> hsk_header_cache(h), prev_block |-> h.prev_block, time |-> h.time,
   bits |-> h.bits, nonce |-> h.nonce, height |-> 0, work |-> 0, next |-> NULL]

\* hsk_header_verify_pow: the verifier is opaque; nonce 0 stands for a valid
\* solution and any other nonce for an invalid one.
hsk_header_verify_pow(h) == IF h.nonce = 0 THEN HSK_SUCCESS ELSE HSK_EBADPOW

\* hsk_pow_to_target: [ok, target] of a compact encoding.
hsk_pow_to_target(bits) ==
  LET e == bits \div Pow(Digit, 3)
      m == bits % Pow(Digit, 3)
      negative == m >= Pow(Digit, 3) \div 2
      t == IF e >= 3 THEN m * Pow(Digit, e - 3) ELSE m \div Pow(Digit, 3 - e)
  IN IF bits = 0 \/ negative \/ (m # 0 /\ e > 5) \/ t >= Pow(2, WorkBits)
       THEN [ok |-> FALSE, target |-> 0]
       ELSE [ok |-> TRUE, target |-> t]

\* Number of digits of a target with the leading zero digits stripped.
RECURSIVE DigitLen(_)
DigitLen(t) == IF t = 0 THEN 0 ELSE 1 + DigitLen(t \div Digit)

\* hsk_pow_to_bits: the canonical compact encoding of a target.
hsk_pow_to_bits(t) ==
  LET e == DigitLen(t)
      m == IF e <= 3 THEN t * Pow(Digit, 3 - e) ELSE t \div Pow(Digit, e - 3)
  IN IF m >= Pow(Digit, 3) \div 2
       THEN (e + 1) * Pow(Digit, 3) + (m \div Digit)
       ELSE e * Pow(Digit, 3) + m

\* hsk_header_calc_work: work(prev) + floor(2^WorkBits / (target + 1)).
hsk_header_calc_work(h, prevwork) ==
  prevwork + (Pow(2, WorkBits) \div (hsk_pow_to_target(h.bits).target + 1))

\* hsk_map_get on a map modelled as a function: NULL when the key is absent.
hsk_map_get(map, key) == IF key \in DOMAIN map THEN map[key] ELSE NULL

hsk_map_has(map, key) == key \in DOMAIN map

\* hsk_map_set: insert or overwrite.
hsk_map_set(map, key, value) ==
  [k \in DOMAIN map \cup {key} |-> IF k = key THEN value ELSE map[k]]

hsk_map_del(map, key) == [k \in DOMAIN map \ {key} |-> map[k]]

\* The pointer hsk_map_get(&chain->hashes, key) returns: a pointer to a header
\* is its hash, NULL when the key is absent.
HashesPtr(hs, key) == IF key \in DOMAIN hs THEN key ELSE NULL

\* ------------------------------------------------------------------- locator

\* The loop of hsk_chain_get_locator: ht is the height variable, i the number
\* of hashes written, out the hashes; ok is FALSE when assert(hdr) fails.
RECURSIVE LocatorWalk(_, _, _, _, _)
LocatorWalk(hts, ht, step, i, out) ==
  IF ht > 0
    THEN LET lower == IF ht - step < 0 THEN 0 ELSE ht - step
             step1 == IF i > 10 THEN step * 2 ELSE step
             at == IF i = 64 - 1 THEN 0 ELSE lower
             hdr == hsk_map_get(hts, at)
         IN IF hdr = NULL THEN [ok |-> FALSE, hashes |-> out]
            ELSE LocatorWalk(hts, at, step1, i + 1, Append(out, hdr))
    ELSE [ok |-> TRUE, hashes |-> out]

\* hsk_chain_get_locator: [ok, hashes], the hashes written to the message.
hsk_chain_get_locator(t, ht, hts) == LocatorWalk(hts, ht, 1, 1, <<t>>)

\* ---------------------------------------------------------- median time past

\* The loop of hsk_chain_get_mtp: up to 11 timestamps, prev first.
RECURSIVE MtpCollect(_, _, _)
MtpCollect(hs, prev, i) ==
  IF i < 11 /\ prev # NULL
    THEN <<hs[prev].time>> \o MtpCollect(hs, HashesPtr(hs, hs[prev].prev_block), i + 1)
    ELSE <<>>

hsk_chain_get_mtp(hs, prev) ==
  IF prev = NULL THEN 0
  ELSE LET median == SortAsc(MtpCollect(hs, prev, 0))
           size == Len(median)
       IN median[(size \div 2) + 1]

\* ------------------------------------------------------------------ retarget

\* Variant of the loop below: one header fewer is walked.
RECURSIVE RetargetWalk_short(_, _, _, _)
RetargetWalk_short(hs, first, i, sum) ==
  IF first # NULL /\ i < HSK_TARGET_WINDOW - 1
    THEN RetargetWalk_short(hs, HashesPtr(hs, hs[first].prev_block), i + 1,
                            sum + hsk_pow_to_target(hs[first].bits).target)
    ELSE [first |-> first, sum |-> sum]

\* The window loop of hsk_chain_retarget: [first, sum] after it.
RECURSIVE RetargetWalk(_, _, _, _)
RetargetWalk(hs, first, i, sum) ==
  IF first # NULL /\ i < HSK_TARGET_WINDOW
    THEN RetargetWalk(hs, HashesPtr(hs, hs[first].prev_block), i + 1,
                      sum + hsk_pow_to_target(hs[first].bits).target)
    ELSE [first |-> first, sum |-> sum]

\* The dampened timespan of hsk_chain_retarget, before the assertion and clamp.
RetargetActual(hs, first, last) ==
  LET start == hsk_chain_get_mtp(hs, first)
      end == hsk_chain_get_mtp(hs, last)
      diff == end - start
  IN HSK_TARGET_TIMESPAN + CDiv(diff - HSK_TARGET_TIMESPAN, 4)

\* hsk_chain_retarget: [ok, bits]; ok is FALSE when assert(actual >= 0) fails.
hsk_chain_retarget(hs, prev) ==
  IF prev = NULL THEN [ok |-> TRUE, bits |-> HSK_BITS]
  ELSE
    LET w == RetargetWalk(hs, prev, 0, 0)
    IN IF w.first = NULL THEN [ok |-> TRUE, bits |-> HSK_BITS]
       ELSE
         LET avg == w.sum \div HSK_TARGET_WINDOW
             actual == RetargetActual(hs, w.first, prev)
             clamped == IF actual < HSK_MIN_ACTUAL THEN HSK_MIN_ACTUAL
                        ELSE IF actual > HSK_MAX_ACTUAL THEN HSK_MAX_ACTUAL
                        ELSE actual
             target == (avg * clamped) \div HSK_TARGET_TIMESPAN
         IN IF actual < 0 THEN [ok |-> FALSE, bits |-> 0]
            ELSE IF target > HSK_LIMIT THEN [ok |-> TRUE, bits |-> HSK_BITS]
            ELSE [ok |-> TRUE, bits |-> hsk_pow_to_bits(target)]

\* hsk_chain_get_target for a header with a known prev.
hsk_chain_get_target(hs, time, prev) ==
  IF prev = NULL THEN [ok |-> TRUE, bits |-> HSK_BITS]
  ELSE IF HSK_NO_RETARGETTING THEN [ok |-> TRUE, bits |-> HSK_BITS]
  ELSE IF HSK_TARGET_RESET /\ time > hs[prev].time + HSK_TARGET_SPACING * 2
    THEN [ok |-> TRUE, bits |-> HSK_BITS]
  ELSE hsk_chain_retarget(hs, prev)

\* --------------------------------------------------------------- fork finding

\* mem maps every live header object (those of hashes and the clone being
\* added) to its record; hs is the hashes map the lookups go through.

\* Variant of the loop below: it also steps back from the fork's height.
RECURSIVE FindForkRewind_further(_, _, _, _)
FindForkRewind_further(mem, hs, longer, forkheight) ==
  IF longer # NULL /\ mem[longer].height >= forkheight
    THEN FindForkRewind_further(mem, hs, HashesPtr(hs, mem[longer].prev_block),
                                forkheight)
    ELSE longer

\* The inner loop of hsk_chain_find_fork.
RECURSIVE FindForkRewind(_, _, _, _)
FindForkRewind(mem, hs, longer, forkheight) ==
  IF longer # NULL /\ mem[longer].height > forkheight
    THEN FindForkRewind(mem, hs, HashesPtr(hs, mem[longer].prev_block), forkheight)
    ELSE longer

\* hsk_chain_find_fork: the fork pointer, or NULL.
RECURSIVE hsk_chain_find_fork(_, _, _, _)
hsk_chain_find_fork(mem, hs, fork, longer) ==
  IF fork = longer THEN fork
  ELSE
    LET l == FindForkRewind(mem, hs, longer, mem[fork].height)
    IN IF l = NULL THEN NULL
       ELSE IF fork = l THEN fork
       ELSE LET f == HashesPtr(hs, mem[fork].prev_block)
            IN IF f = NULL THEN NULL ELSE hsk_chain_find_fork(mem, hs, f, l)

\* ---------------------------------------------------------------- reorganize

\* nxt holds the scratch next pointer of every live header object.

\* "Blocks to disconnect": links tip downward to the header above the fork.
RECURSIVE BuildDisconnect(_, _, _, _, _, _)
BuildDisconnect(mem, hs, entry, fork, tail, nxt) ==
  IF entry = fork THEN [ok |-> TRUE, nxt |-> nxt]
  ELSE IF nxt[entry] # NULL THEN [ok |-> FALSE, nxt |-> nxt]
  ELSE
    LET linked == IF tail # NULL THEN [nxt EXCEPT ![tail] = entry] ELSE nxt
        e == HashesPtr(hs, mem[entry].prev_block)
    IN IF e = NULL THEN [ok |-> FALSE, nxt |-> linked]
       ELSE BuildDisconnect(mem, hs, e, fork, entry, linked)

\* "Blocks to connect": links the header above the fork upward to competitor.
RECURSIVE BuildConnect(_, _, _, _, _, _)
BuildConnect(mem, hs, entry, fork, connect, nxt) ==
  IF entry = fork THEN [ok |-> TRUE, connect |-> connect, nxt |-> nxt]
  ELSE IF nxt[entry] # NULL THEN [ok |-> FALSE, connect |-> connect, nxt |-> nxt]
  ELSE
    LET linked == IF connect # NULL THEN [nxt EXCEPT ![entry] = connect] ELSE nxt
        e == HashesPtr(hs, mem[entry].prev_block)
    IN IF e = NULL THEN [ok |-> FALSE, connect |-> entry, nxt |-> linked]
       ELSE BuildConnect(mem, hs, e, fork, entry, linked)

\* "Disconnect blocks": every listed header leaves heights.
RECURSIVE DisconnectBlocks(_, _, _, _)
DisconnectBlocks(mem, c, nxt, hts) ==
  IF c = NULL THEN [nxt |-> nxt, heights |-> hts]
  ELSE DisconnectBlocks(mem, nxt[c], [nxt EXCEPT ![c] = NULL],
                        hsk_map_del(hts, mem[c].height))

\* Variant of the loop below: the insert into heights left out.
RECURSIVE ConnectBlocks_skip(_, _, _, _)
ConnectBlocks_skip(mem, c, nxt, hts) ==
  IF c = NULL THEN [nxt |-> nxt, heights |-> hts]
  ELSE
    LET n == nxt[c]
        cleared == [nxt EXCEPT ![c] = NULL]
    IN IF n = NULL THEN [nxt |-> cleared, heights |-> hts]
       ELSE ConnectBlocks_skip(mem, n, cleared, hts)

\* "Connect blocks (backwards, save last)": every listed header but the last
\* enters heights.
RECURSIVE ConnectBlocks(_, _, _, _)
ConnectBlocks(mem, c, nxt, hts) ==
  IF c = NULL THEN [nxt |-> nxt, heights |-> hts]
  ELSE
    LET n == nxt[c]
        cleared == [nxt EXCEPT ![c] = NULL]
    IN IF n = NULL THEN [nxt |-> cleared, heights |-> hts]
       ELSE ConnectBlocks(mem, n, cleared, hsk_map_set(hts, mem[c].height, c))

\* hsk_chain_reorganize(chain, competitor): [ok, heights, nxt]; ok is FALSE
\* when one of its assertions fails.  setfails: the hsk_map_set inside
\* assert() runs out of memory.
hsk_chain_reorganize(c, hdr, setfails) ==
  LET hs == c.hashes
      mem == hsk_map_set(hs, hdr.hash, hdr)
      nxt0 == [p \in DOMAIN mem |-> mem[p].next]
      fork == hsk_chain_find_fork(mem, hs, c.tip, hdr.hash)
      bad == [ok |-> FALSE, heights |-> c.heights, nxt |-> nxt0]
  IN IF fork = NULL THEN bad
     ELSE
       LET d == BuildDisconnect(mem, hs, c.tip, fork, NULL, nxt0)
           disconnect == IF c.tip = fork THEN NULL ELSE c.tip
       IN IF ~d.ok THEN bad
          ELSE
            LET b == BuildConnect(mem, hs, hdr.hash, fork, NULL, d.nxt)
            IN IF ~b.ok THEN bad
               ELSE
                 LET dis == DisconnectBlocks(mem, disconnect, b.nxt, c.heights)
                     con == ConnectBlocks(mem, b.connect, dis.nxt, dis.heights)
                 IN IF setfails /\ con.heights # dis.heights THEN bad
                    ELSE [ok |-> TRUE, heights |-> con.heights, nxt |-> con.nxt]

\* ----------------------------------------------------------------------- add

\* The chain object together with the outcome of the latest call: rc is what
\* the call returned, freed how many times it released its clone, reorganizing
\* whether it logged "reorganizing...", and firstAt
\* maps every cumulative work some accepted header has to the header that was
\* accepted first with that work (a history of the calls, not read by them).
Chain(hs, hts, orph, prv, t, ht, gen, r, f, fst) ==
  [hashes |-> hs, heights |-> hts, orphans |-> orph, prevs |-> prv, tip |-> t,
   height |-> ht, genesis |-> gen, rc |-> r, freed |-> f, reorganizing |-> FALSE,
   firstAt |-> fst]

\* The history after hdr was accepted into hashes.
Accepted(fst, hdr) ==
  IF hdr.work \in DOMAIN fst THEN fst ELSE hsk_map_set(fst, hdr.work, hdr.hash)

\* Allocation that fails during a call: none, the clone, the first or second
\* hsk_map_set of hsk_chain_add, or the hsk_map_set of hsk_chain_reorganize.
OomPoints == {"none", "clone", "set1", "set2", "reorg"}

\* The fail label: the clone is released and the code returned.
Fail(c, code) == [c EXCEPT !.rc = code, !.freed = 1]

\* if (hdr->time > hsk_now() + 2 * 60 * 60)
TimeTooNew(hdr, now) == hdr.time > now + TwoHours

\* Variants of the two duplicate checks below: the check left out.
IsDuplicate_never(c, hdr) == FALSE
IsDuplicateOrphan_never(c, hdr) == FALSE

\* if (hsk_map_has(&chain->hashes, hash))
IsDuplicate(c, hdr) == hsk_map_has(c.hashes, hdr.hash)

\* if (hsk_map_has(&chain->orphans, hash))
IsDuplicateOrphan(c, hdr) == hsk_map_has(c.orphans, hdr.hash)

\* Variants of the comparison below: strict, and left out.
TimeTooOld_strict(hdr, mtp) == hdr.time < mtp
TimeTooOld_never(hdr, mtp) == FALSE

\* if ((int64_t)hdr->time <= mtp)
TimeTooOld(hdr, mtp) == hdr.time <= mtp

\* Variant of the comparison below: strict.
WorkNotAbove_strict(work, tipwork) == work < tipwork

\* if (memcmp(hdr->work, chain->tip->work, 32) <= 0)
WorkNotAbove(work, tipwork) == work <= tipwork

\* Variant of the lookup below: keyed by the header's own hash.
PrevOf_byhash(c, hdr) == HashesPtr(c.hashes, hdr.hash)

\* hsk_map_get(&chain->hashes, hdr->prev_block)
PrevOf(c, hdr) == HashesPtr(c.hashes, hdr.prev_block)

\* Variant of the branch below: an earlier entry of prevs is kept.
StoreOrphan_keepsfirst(c, hdr, oom) ==
  IF oom = "set1" THEN Fail(c, HSK_ENOMEM)
  ELSE
    LET stored == hsk_map_set(c.orphans, hdr.hash, hdr)
    IN IF oom = "set2"
         THEN [c EXCEPT !.orphans = hsk_map_del(stored, hdr.hash),
                        !.rc = HSK_ENOMEM, !.freed = 2]
         ELSE [c EXCEPT !.orphans = stored,
                        !.prevs = IF hdr.prev_block \in DOMAIN c.prevs THEN c.prevs
                                  ELSE hsk_map_set(c.prevs, hdr.prev_block, hdr.hash),
                        !.rc = HSK_SUCCESS, !.freed = 0]

\* The branch "if (!prev)": the header is stored as an orphan.
StoreOrphan(c, hdr, oom) ==
  IF oom = "set1" THEN Fail(c, HSK_ENOMEM)
  ELSE
    LET stored == hsk_map_set(c.orphans, hdr.hash, hdr)
    IN IF oom = "set2"
         \* hsk_map_del releases the clone through the map's destructor and
         \* the fail label releases it again.
         THEN [c EXCEPT !.orphans = hsk_map_del(stored, hdr.hash),
                        !.rc = HSK_ENOMEM, !.freed = 2]
         ELSE [c EXCEPT !.orphans = stored,
                        !.prevs = hsk_map_set(c.prevs, hdr.prev_block, hdr.hash),
                        !.rc = HSK_SUCCESS, !.freed = 0]

\* Variant of the branch below: the tip and height are moved as well.
StoreAlternate_movestip(c, hdr, oom) ==
  IF oom = "set1" THEN Fail(c, HSK_ENOMEM)
  ELSE [c EXCEPT !.hashes = hsk_map_set(c.hashes, hdr.hash, hdr),
                 !.height = hdr.height,
                 !.tip = hdr.hash,
                 !.firstAt = Accepted(c.firstAt, hdr),
                 !.rc = HSK_SUCCESS, !.freed = 0]

\* Variant of the branch below: the header is entered into heights as well.
StoreAlternate_inheights(c, hdr, oom) ==
  IF oom = "set1" THEN Fail(c, HSK_ENOMEM)
  ELSE [c EXCEPT !.hashes = hsk_map_set(c.hashes, hdr.hash, hdr),
                 !.heights = hsk_map_set(c.heights, hdr.height, hdr.hash),
                 !.firstAt = Accepted(c.firstAt, hdr),
                 !.rc = HSK_SUCCESS, !.freed = 0]

\* The branch "stored on alternate chain".
StoreAlternate(c, hdr, oom) ==
  IF oom = "set1" THEN Fail(c, HSK_ENOMEM)
  ELSE [c EXCEPT !.hashes = hsk_map_set(c.hashes, hdr.hash, hdr),
                 !.firstAt = Accepted(c.firstAt, hdr),
                 !.rc = HSK_SUCCESS, !.freed = 0]

\* The chain after hsk_chain_reorganize returned r: heights and the scratch
\* next pointers of the stored headers.
AfterReorganize(c, r) ==
  [c EXCEPT !.heights = r.heights,
            !.hashes = [p \in DOMAIN c.hashes |->
                          [c.hashes[p] EXCEPT !.next = r.nxt[p]]]]

\* The branch "added to main chain", after any reorganization: c is the chain
\* and hdr the clone as hsk_chain_reorganize left them.
StoreMain(c, hdr, oom) ==
  IF oom = "set1" THEN Fail(c, HSK_ENOMEM)
  ELSE
    LET stored == hsk_map_set(c.hashes, hdr.hash, hdr)
    IN IF oom = "set2"
         THEN [c EXCEPT !.hashes = hsk_map_del(stored, hdr.hash),
                        !.rc = HSK_ENOMEM, !.freed = 2]
         ELSE [c EXCEPT !.hashes = stored,
                        !.heights = hsk_map_set(c.heights, hdr.height, hdr.hash),
                        !.height = hdr.height,
                        !.tip = hdr.hash,
                        !.firstAt = Accepted(c.firstAt, hdr),
                        !.rc = HSK_SUCCESS, !.freed = 0]

\* Lines 466-498: height and work are computed and the header is stored.
Connect(c, hdr0, prev, oom) ==
  LET hdr == [hdr0 EXCEPT !.height = c.hashes[prev].height + 1,
                          !.work = hsk_header_calc_work(hdr0, c.hashes[prev].work)]
  IN IF WorkNotAbove(hdr.work, c.hashes[c.tip].work)
       THEN StoreAlternate(c, hdr, oom)
       ELSE IF hdr.prev_block # c.tip
         THEN LET r == hsk_chain_reorganize(c, hdr, oom = "reorg")
              IN IF ~r.ok THEN [c EXCEPT !.rc = ABORTED, !.freed = 0]
                 ELSE StoreMain([AfterReorganize(c, r) EXCEPT !.reorganizing = TRUE],
                                [hdr EXCEPT !.next = r.nxt[hdr.hash]], oom)
         ELSE StoreMain(c, hdr, oom)

\* Variant of the checks below: the time-too-old check made after the header
\* was stored.
ValidateAndConnect_late(c, hdr, prev, oom) ==
  LET mtp == hsk_chain_get_mtp(c.hashes, prev)
      bits == hsk_chain_get_target(c.hashes, hdr.time, prev)
  IN IF ~bits.ok THEN [c EXCEPT !.rc = ABORTED, !.freed = 0]
     ELSE IF hdr.bits # bits.bits THEN Fail(c, HSK_EBADDIFFBITS)
     ELSE IF TimeTooOld(hdr, mtp)
       THEN [Connect(c, hdr, prev, oom) EXCEPT !.rc = HSK_ETIMETOOOLD, !.freed = 1]
     ELSE Connect(c, hdr, prev, oom)

\* The checks of a header whose prev is known (lines 450-464), then Connect.
ValidateAndConnect(c, hdr, prev, oom) ==
  LET mtp == hsk_chain_get_mtp(c.hashes, prev)
  IN IF TimeTooOld(hdr, mtp) THEN Fail(c, HSK_ETIMETOOOLD)
     ELSE
       LET bits == hsk_chain_get_target(c.hashes, hdr.time, prev)
       IN IF ~bits.ok THEN [c EXCEPT !.rc = ABORTED, !.freed = 0]
          ELSE IF hdr.bits # bits.bits THEN Fail(c, HSK_EBADDIFFBITS)
          ELSE Connect(c, hdr, prev, oom)

\* hsk_chain_add(chain, h) called at time now with allocation failure oom.
hsk_chain_add(c, h, now, oom) ==
  IF oom = "clone" THEN [c EXCEPT !.rc = HSK_ENOMEM, !.freed = 0]
  ELSE
    LET hdr == hsk_header_clone(h)
    IN IF TimeTooNew(hdr, now) THEN Fail(c, HSK_ETIMETOONEW)
       ELSE IF IsDuplicate(c, hdr) THEN Fail(c, HSK_EDUPLICATE)
       ELSE IF IsDuplicateOrphan(c, hdr) THEN Fail(c, HSK_EDUPLICATEORPHAN)
       ELSE IF hsk_header_verify_pow(hdr) # HSK_SUCCESS
         THEN Fail(c, hsk_header_verify_pow(hdr))
       ELSE
         LET prev == PrevOf(c, hdr)
         IN IF prev = NULL THEN StoreOrphan(c, hdr, oom)
            ELSE ValidateAndConnect(c, hdr, prev, oom)

\* ------------------------------------------------------------------- inputs

GenesisHeader == Header(<<>>, GenesisTime, HSK_BITS, 0)

\* Headers below prev_block, at most depth links deep, with the default target
\* and a valid solution, at every time of times.
RECURSIVE Below(_, _, _)
Below(prev_block, times, depth) ==
  IF depth = 0 THEN {}
  ELSE UNION {
         LET h == Header(prev_block, t, HSK_BITS, 0)
         IN {h} \cup Below(hsk_header_cache(h), times, depth - 1)
         : t \in times }

\* The shallow pool: genesis and every header of the default target at most
\* MaxDepth links below it, at the times GenesisTime + 1..MaxTime.
ShallowPool ==
  {GenesisHeader}
    \cup Below(hsk_header_cache(GenesisHeader),
               {GenesisTime + t : t \in 1..MaxTime}, MaxDepth)

\* The chain of headers below prev_block that cs, a sequence of
\* <<time - GenesisTime, bits, nonce>>, describes.
RECURSIVE Branch(_, _)
Branch(prev_block, cs) ==
  IF cs = <<>> THEN {}
  ELSE LET h == Header(prev_block, GenesisTime + cs[1][1], cs[1][2], cs[1][3])
       IN {h} \cup Branch(hsk_header_cache(h), Tail(cs))

\* The hash of the last header of Branch(prev_block, cs).
RECURSIVE BranchEnd(_, _)
BranchEnd(prev_block, cs) ==
  IF cs = <<>> THEN prev_block
  ELSE BranchEnd(hsk_header_cache(
                   Header(prev_block, GenesisTime + cs[1][1], cs[1][2], cs[1][3])),
                 Tail(cs))

\* The deep pool: two headers on genesis (the trunk), then a slow branch of
\* five headers, each late enough to reset to the default target, and a fast
\* branch of four headers, each at the harder target the retarget asks for, so
\* that the fast branch ends lower than the slow one with more work.  With
\* them: a header with a bad solution and a header with the wrong target.
TrunkContents == << <<1, HSK_BITS, 0>>, <<2, HSK_BITS, 0>> >>
SlowContents == << <<11, HSK_BITS, 0>>, <<20, HSK_BITS, 0>>, <<29, HSK_BITS, 0>>,
                   <<38, HSK_BITS, 0>>, <<47, HSK_BITS, 0>> >>
FastContents == << <<2, 14079, 0>>, <<3, 13967, 0>>, <<3, 13806, 0>>,
                   <<3, 13486, 0>> >>
\* Time of the last header of the slow branch, the latest of the deep pool.
SlowLast == SlowContents[Len(SlowContents)][1]
TrunkEnd == BranchEnd(hsk_header_cache(GenesisHeader), TrunkContents)

DeepPool ==
  Branch(hsk_header_cache(GenesisHeader), TrunkContents)
    \cup Branch(TrunkEnd, SlowContents)
    \cup Branch(TrunkEnd, FastContents)
    \cup Branch(TrunkEnd, << <<11, HSK_BITS, 1>> >>)
    \cup Branch(TrunkEnd, << <<2, HSK_BITS, 0>> >>)

\* The long pool: one chain of twelve headers on genesis, each late enough to
\* reset to the default target, so that median-time-past windows of the full
\* eleven timestamps occur; below its end a header at the median-time-past of
\* the end and a header one second later.
LongContents == [k \in 1..12 |-> <<9 * k, HSK_BITS, 0>>]
LongEnd == BranchEnd(hsk_header_cache(GenesisHeader), LongContents)
\* Time of the last header of the long chain, the latest of the long pool.
LongLast == LongContents[Len(LongContents)][1]
\* The median-time-past of the end of the long chain: the sixth of the eleven
\* timestamps at heights 2..12.
LongMtp == LongContents[7][1]

LongPool ==
  Branch(hsk_header_cache(GenesisHeader), LongContents)
    \cup Branch(LongEnd, << <<LongMtp, HSK_BITS, 0>> >>)
    \cup Branch(LongEnd, << <<LongMtp + 1, HSK_BITS, 0>> >>)

Pool == IF mode = "shallow" THEN ShallowPool
        ELSE IF mode = "deep" THEN DeepPool
        ELSE LongPool

\* hsk_now() at the time of a call: the latest header time of the pool is two
\* hours and one second ahead of the first, two hours ahead of the second.
NowSet ==
  LET latest == GenesisTime + (IF mode = "shallow" THEN MaxTime
                               ELSE IF mode = "deep" THEN SlowLast
                               ELSE LongLast)
  IN {latest - 1 - TwoHours, latest - TwoHours}

\* ---------------------------------------------------------------- the system

chain == Chain(hashes, heights, orphans, prevs, tip, height, genesis,
               rc, freed, firstAt)

\* hsk_chain_init_genesis: the genesis header with its work, at height 0.
InitGenesis ==
  LET g == hsk_header_clone(GenesisHeader)
  IN [g EXCEPT !.height = 0, !.work = hsk_header_calc_work(g, 0)]

\* hsk_chain_init
Init ==
  /\ hashes = hsk_map_set(<<>>, InitGenesis.hash, InitGenesis)
  /\ heights = hsk_map_set(<<>>, InitGenesis.height, InitGenesis.hash)
  /\ orphans = <<>>
  /\ prevs = <<>>
  /\ tip = InitGenesis.hash
  /\ height = InitGenesis.height
  /\ genesis = InitGenesis.hash
  /\ rc = HSK_SUCCESS
  /\ freed = 0
  /\ reorganizing = FALSE
  /\ firstAt = hsk_map_set(<<>>, InitGenesis.work, InitGenesis.hash)
  /\ mode \in {"shallow", "deep", "long"}

\* The bound on the orphans the host offers: r is the chain after the call.
OrphansWithin(r) ==
  IF mode = "shallow" THEN Cardinality(DOMAIN r.orphans) <= MaxOrphans
  ELSE Cardinality(DOMAIN r.prevs) <= MaxOrphans

\* What the host sees of a call that came to r.  A call that released its
\* clone twice has undefined behaviour: it returns as if nothing had happened,
\* or the allocator detects the second release and aborts the process.
Outcomes(r) == IF r.freed = 2 THEN {r, [r EXCEPT !.rc = ABORTED]} ELSE {r}

\* One call of hsk_chain_add by the host.
Add ==
  /\ rc # ABORTED
  /\ \E h \in Pool, now \in NowSet, oom \in OomPoints :
       \E r \in Outcomes(hsk_chain_add(chain, h, now, oom)) :
          /\ OrphansWithin(r)
          /\ hashes' = r.hashes
          /\ heights' = r.heights
          /\ orphans' = r.orphans
          /\ prevs' = r.prevs
          /\ tip' = r.tip
          /\ height' = r.height
          /\ genesis' = r.genesis
          /\ rc' = r.rc
          /\ freed' = r.freed
          /\ reorganizing' = r.reorganizing
          /\ firstAt' = r.firstAt
  /\ UNCHANGED mode

Next == Add

Spec == Init /\ [][Next]_vars

\* ------------------------------------------------------------------- terms

Range(f) == {f[k] : k \in DOMAIN f}

\* The return codes of the validation checks.
ValidationErrors ==
  {HSK_ETIMETOONEW, HSK_EDUPLICATE, HSK_EDUPLICATEORPHAN, HSK_EBADPOW,
   HSK_ETIMETOOOLD, HSK_EBADDIFFBITS}

\* The header p of hs and its ancestors in hs, by prev_block.
RECURSIVE Ancestors(_, _)
Ancestors(hs, p) ==
  IF p \notin DOMAIN hs THEN {} ELSE {p} \cup Ancestors(hs, hs[p].prev_block)

\* The common ancestor of p and q of the greatest height.
CommonAncestor(hs, p, q) ==
  LET common == Ancestors(hs, p) \cap Ancestors(hs, q)
  IN CHOOSE a \in common : \A b \in common : hs[b].height <= hs[a].height

\* heights is defined exactly on 0..tip.height.
HeightsExact(hs, hts, t) == DOMAIN hts = 0..hs[t].height

\* The maps, tip and height of two chains agree.
SameIndex(a, b) ==
  /\ a.hashes = b.hashes
  /\ a.heights = b.heights
  /\ a.orphans = b.orphans
  /\ a.prevs = b.prevs
  /\ a.tip = b.tip
  /\ a.height = b.height

\* ---------------------------------------------------------------------- C1

\* C1: the tip is a header of hashes of maximum cumulative work, and among the
\* headers of that work it is the one accepted first.
C1_TipIsFirstOfMaxWork ==
  /\ tip \in DOMAIN hashes
  /\ \A p \in DOMAIN hashes : hashes[p].work <= hashes[tip].work
  /\ firstAt[hashes[tip].work] = tip

\* A later header has reached the work of a tip two or more links above
\* genesis, and the tip stayed.
C1_Witness ==
  /\ rc = HSK_SUCCESS
  /\ height >= 2
  /\ \E p \in DOMAIN hashes : p # tip /\ hashes[p].work = hashes[tip].work

\* ---------------------------------------------------------------------- C2

\* C2: heights is defined exactly for 0..tip.height, and the header at each
\* height n has height n.
C2_HeightsExact ==
  /\ HeightsExact(hashes, heights, tip)
  /\ \A n \in DOMAIN heights :
       heights[n] \in DOMAIN hashes /\ hashes[heights[n]].height = n

\* ---------------------------------------------------------------------- C3

\* C3: heights[tip.height] is the tip, chain.height is the tip's height, and
\* heights[0] is the genesis header init() installed.
C3_TipAndGenesis ==
  /\ hashes[tip].height \in DOMAIN heights
  /\ heights[hashes[tip].height] = tip
  /\ height = hashes[tip].height
  /\ 0 \in DOMAIN heights
  /\ heights[0] = genesis
  /\ genesis = InitGenesis.hash

\* ---------------------------------------------------------------------- C4

\* C4: across a successful add the tip's work does not decrease, and the tip
\* changes only to the added header, of strictly greater work than the old tip.
C4_TipMonotone ==
  [][rc' = HSK_SUCCESS =>
       /\ hashes'[tip'].work >= hashes[tip].work
       /\ tip' # tip =>
            /\ tip' \notin DOMAIN hashes
            /\ hashes'[tip'].work > hashes[tip].work]_vars

\* A header of the tip's work was added to a chain of height 1, the tip stayed.
C4_Witness ==
  /\ rc = HSK_SUCCESS
  /\ height = 1
  /\ \E p \in DOMAIN hashes : p # tip /\ hashes[p].work = hashes[tip].work

\* ---------------------------------------------------------------------- C5

\* The effect of a reorganizing add of the header h on the chain.
ReorgEffect(h) ==
  LET fork == CommonAncestor(hashes', tip, h)
      old == {p \in Ancestors(hashes, tip) : hashes[p].height > hashes[fork].height}
  IN /\ tip' = h
     /\ height' = hashes'[h].height
     /\ \A n \in (hashes[fork].height + 1)..height' :
          /\ n \in DOMAIN heights'
          /\ heights'[n] \in Ancestors(hashes', h)
          /\ hashes'[heights'[n]].height = n
     /\ \A p \in old :
          /\ p \in DOMAIN hashes'
          /\ hashes[p].height \in DOMAIN heights' => heights'[hashes[p].height] # p
     /\ \A p \in DOMAIN hashes : hashes'[p] = hashes[p]
     /\ orphans' = orphans
     /\ prevs' = prevs

\* C5: when a header is accepted whose work exceeds the tip's and whose
\* prev_block is not the tip, the tip and height become the header's, heights
\* above the fork follows the header's branch, the headers of the old branch
\* above the fork stay in hashes and leave heights, and the earlier contents of
\* hashes, orphans and prevs are unchanged.
C5_Reorg ==
  [][\A h \in DOMAIN hashes' \ DOMAIN hashes :
       (/\ rc' = HSK_SUCCESS
        /\ hashes'[h].work > hashes[tip].work
        /\ hashes'[h].prev_block # tip) => ReorgEffect(h)]_vars

\* A reorganization onto a branch that ends lower than a stored header.
C5_Witness ==
  /\ rc = HSK_SUCCESS
  /\ reorganizing
  /\ \E p \in DOMAIN hashes : hashes[p].height > height

\* ---------------------------------------------------------------------- C6

\* The index after hsk_chain_add(h) succeeded and was called again at once.
ReAdd(h, now, oom, again) ==
  hsk_chain_add(hsk_chain_add(chain, h, now, oom), h, again, "none")

\* C6 as claimed: after a successful add(h), add(h) returns EDUPLICATE and
\* changes nothing.
C6_ReAddIsDuplicate ==
  \A h \in Pool, now \in NowSet, oom \in OomPoints :
    LET r == hsk_chain_add(chain, h, now, oom)
    IN r.rc = HSK_SUCCESS =>
         \A again \in {n \in NowSet : n >= now} :
           /\ ReAdd(h, now, oom, again).rc = HSK_EDUPLICATE
           /\ SameIndex(ReAdd(h, now, oom, again), r)

\* C6 amended: after a successful add(h), add(h) returns EDUPLICATE when h was
\* stored in hashes and EDUPLICATEORPHAN when it was stored as an orphan, and
\* changes nothing.
C6_ReAddIsRejected ==
  \A h \in Pool, now \in NowSet, oom \in OomPoints :
    LET r == hsk_chain_add(chain, h, now, oom)
    IN r.rc = HSK_SUCCESS =>
         \A again \in {n \in NowSet : n >= now} :
           /\ ReAdd(h, now, oom, again).rc =
                IF hsk_header_cache(h) \in DOMAIN r.hashes
                  THEN HSK_EDUPLICATE ELSE HSK_EDUPLICATEORPHAN
           /\ SameIndex(ReAdd(h, now, oom, again), r)

\* A stored orphan was added again and refused, with stored headers above
\* genesis.
C6_Witness ==
  /\ rc = HSK_EDUPLICATEORPHAN
  /\ height >= 1

\* ---------------------------------------------------------------------- C7

\* C7: a call that returns a validation error leaves hashes, heights, orphans,
\* prevs, tip and height as they were.
C7_ValidationErrorsChangeNothing ==
  [][rc' \in ValidationErrors =>
       UNCHANGED <<hashes, heights, orphans, prevs, tip, height>>]_vars

\* A header was refused as too old on a chain that holds an orphan.
C7_Witness ==
  /\ rc = HSK_ETIMETOOOLD
  /\ height >= 1
  /\ orphans # <<>>

\* ---------------------------------------------------------------------- C8

\* C8: after an add of an otherwise valid header returned ENOMEM, heights is
\* defined exactly for 0..tip.height with heights[tip.height] the tip, and the
\* rejected header is in none of the maps.
C8_OomLeavesChainConsistent ==
  /\ rc = HSK_ENOMEM =>
       /\ HeightsExact(hashes, heights, tip)
       /\ heights[hashes[tip].height] = tip
  /\ \A h \in Pool, now \in NowSet, oom \in OomPoints :
       LET r == hsk_chain_add(chain, h, now, oom)
           hash == hsk_header_cache(h)
       IN (r.rc = HSK_ENOMEM /\ hsk_chain_add(chain, h, now, "none").rc = HSK_SUCCESS) =>
            /\ hash \notin DOMAIN r.hashes
            /\ hash \notin DOMAIN r.orphans
            /\ hash \notin Range(r.heights)
            /\ hash \notin Range(r.prevs)

\* ---------------------------------------------------------------------- C9

\* C9 as claimed: a header the chain holds is in orphans exactly when its
\* prev_block is not a key of hashes.
C9_OrphanIffPrevUnknown ==
  /\ \A p \in DOMAIN orphans : orphans[p].prev_block \notin DOMAIN hashes
  /\ \A p \in DOMAIN hashes \ {genesis} : hashes[p].prev_block \in DOMAIN hashes

\* C9 amended: a header enters orphans exactly when its add finds its
\* prev_block not a key of hashes, and enters hashes only when it finds it a
\* key; an orphan stays in orphans afterwards, also once its parent is accepted.
C9_OrphanIffPrevUnknownWhenAdded ==
  /\ [](\A p \in DOMAIN hashes \ {genesis} : hashes[p].prev_block \in DOMAIN hashes)
  /\ [][/\ \A p \in DOMAIN orphans' \ DOMAIN orphans :
             orphans'[p].prev_block \notin DOMAIN hashes
        /\ \A p \in DOMAIN hashes' \ DOMAIN hashes :
             hashes'[p].prev_block \in DOMAIN hashes
        /\ \A p \in DOMAIN orphans :
             p \in DOMAIN orphans' /\ orphans'[p] = orphans[p]]_vars

\* The parent of a stored orphan has been accepted into hashes.
C9_Witness ==
  \E p \in DOMAIN orphans : orphans[p].prev_block \in DOMAIN hashes

\* --------------------------------------------------------------------- C10

\* C10: no header hash is a key of both hashes and orphans.
C10_HashesOrphansDisjoint == DOMAIN hashes \cap DOMAIN orphans = {}

\* The parent of a stored orphan is in hashes and the orphan, added again, was
\* refused.
C10_Witness ==
  /\ rc = HSK_EDUPLICATEORPHAN
  /\ \E p \in DOMAIN orphans : orphans[p].prev_block \in DOMAIN hashes

\* --------------------------------------------------------------------- C11

\* The header h, added at time now, passes the time-too-new, duplicate,
\* duplicate-orphan and proof-of-work checks.
PassesFirstChecks(h, now) ==
  /\ h.time <= now + TwoHours
  /\ hsk_header_cache(h) \notin DOMAIN hashes
  /\ hsk_header_cache(h) \notin DOMAIN orphans
  /\ hsk_header_verify_pow(h) = HSK_SUCCESS

\* C11: adding a header that passes the time-too-new, duplicate and
\* proof-of-work checks and whose prev_block is not a key of hashes returns
\* SUCCESS when no allocation fails (ENOMEM with orphans and prevs unchanged
\* when one does), stores the header in orphans under its hash, sets
\* prevs[prev_block] to it whatever prevs held there, and leaves hashes,
\* heights, tip and height unchanged, whatever the header's time and bits.
C11_OrphanStored ==
  \A h \in Pool, now \in NowSet, oom \in OomPoints :
    LET r == hsk_chain_add(chain, h, now, oom)
        hash == hsk_header_cache(h)
    IN (PassesFirstChecks(h, now) /\ h.prev_block \notin DOMAIN hashes) =>
         /\ r.hashes = hashes
         /\ r.heights = heights
         /\ r.tip = tip
         /\ r.height = height
         /\ IF oom \in {"clone", "set1", "set2"}
              THEN r.rc = HSK_ENOMEM /\ r.orphans = orphans /\ r.prevs = prevs
              ELSE /\ r.rc = HSK_SUCCESS
                   /\ DOMAIN r.orphans = DOMAIN orphans \cup {hash}
                   /\ <<r.orphans[hash].prev_block, r.orphans[hash].time,
                        r.orphans[hash].bits, r.orphans[hash].nonce>>
                        = <<h.prev_block, h.time, h.bits, h.nonce>>
                   /\ \A p \in DOMAIN orphans : r.orphans[p] = orphans[p]
                   /\ DOMAIN r.prevs = DOMAIN prevs \cup {h.prev_block}
                   /\ r.prevs[h.prev_block] = hash
                   /\ \A k \in DOMAIN prevs \ {h.prev_block} : r.prevs[k] = prevs[k]

\* Two orphans of one unknown parent are stored, of the same time and of
\* different bits, and prevs holds the one stored last.
C11_Witness ==
  /\ rc = HSK_SUCCESS
  /\ \E p, q \in DOMAIN orphans :
       /\ p # q
       /\ orphans[p].prev_block = orphans[q].prev_block
       /\ orphans[p].prev_block \notin DOMAIN hashes
       /\ orphans[p].time = orphans[q].time
       /\ orphans[p].bits # orphans[q].bits
       /\ prevs[orphans[p].prev_block] = q

\* --------------------------------------------------------------------- C12

\* C12: when a header enters hashes with cumulative work less than or equal to
\* the tip's, the call returns SUCCESS and changes nothing but hashes, which
\* gains the header alone: heights, tip, height, orphans and prevs are as
\* before and the header is the value of heights at no height.
C12_AlternateStored ==
  [][\A h \in DOMAIN hashes' \ DOMAIN hashes :
       hashes'[h].work <= hashes[tip].work =>
         /\ rc' = HSK_SUCCESS
         /\ UNCHANGED <<heights, tip, height, orphans, prevs>>
         /\ DOMAIN hashes' = DOMAIN hashes \cup {h}
         /\ \A p \in DOMAIN hashes : hashes'[p] = hashes[p]
         /\ h \notin Range(heights')]_vars

\* A fork at height 2: a header of the tip's height and work is stored and is
\* not in heights, the incumbent is the tip.
C12_Witness ==
  /\ rc = HSK_SUCCESS
  /\ hashes[tip].height = 2
  /\ heights[2] = tip
  /\ \E p \in DOMAIN hashes :
       /\ p \notin Range(heights)
       /\ hashes[p].height = 2
       /\ hashes[p].work = hashes[tip].work
       /\ hashes[p].prev_block = hashes[tip].prev_block

\* --------------------------------------------------------------------- C13

\* C13: hsk_chain_get_locator completes without its assertion failing and
\* writes at most 64 hashes, the first the tip's and the last the genesis
\* header's, of main-chain headers at strictly decreasing heights; at height 0
\* it writes the genesis hash alone.
C13_Locator ==
  LET l == hsk_chain_get_locator(tip, height, heights)
      n == Len(l.hashes)
  IN rc # ABORTED =>
       /\ l.ok
       /\ n <= 64
       /\ l.hashes[1] = tip
       /\ l.hashes[n] = genesis
       /\ \A i \in 1..n :
            /\ l.hashes[i] \in DOMAIN hashes
            /\ hashes[l.hashes[i]].height \in DOMAIN heights
            /\ heights[hashes[l.hashes[i]].height] = l.hashes[i]
       /\ \A i \in 1..(n - 1) :
            hashes[l.hashes[i]].height > hashes[l.hashes[i + 1]].height
       /\ height = 0 => l.hashes = <<genesis>>

\* The assertion of hsk_chain_get_locator holds in the state.
C13_LocatorAssertion ==
  rc # ABORTED => hsk_chain_get_locator(tip, height, heights).ok

\* --------------------------------------------------------------------- C14

\* The header a stored clone was made of.
HeaderOf(hdr) == Header(hdr.prev_block, hdr.time, hdr.bits, hdr.nonce)

\* C14: once the parent of a stored orphan is in hashes, submitting the
\* orphan again connects it: the call returns SUCCESS and the orphan enters
\* hashes.  Stated of the orphans that the chain would accept were they not
\* stored as orphans, and of calls in which no allocation fails.
C14_ResubmittedOrphanConnects ==
  \A p \in DOMAIN orphans, now \in NowSet :
    LET h == HeaderOf(orphans[p])
        fresh == [chain EXCEPT !.orphans = hsk_map_del(orphans, p)]
        r == hsk_chain_add(chain, h, now, "none")
    IN (/\ h.prev_block \in DOMAIN hashes
        /\ hsk_chain_add(fresh, h, now, "none").rc = HSK_SUCCESS) =>
         /\ r.rc = HSK_SUCCESS
         /\ p \in DOMAIN r.hashes

\* --------------------------------------------------------------------- C15

\* hsk_chain_retarget(prev) returns the default for the length of the chain:
\* its window loop ran off the end of the chain.
FallsBack(prev) == RetargetWalk(hashes, prev, 0, 0).first = NULL

\* The n-th ancestor of the header p of hashes.
RECURSIVE NthAncestor(_, _)
NthAncestor(p, n) == IF n = 0 THEN p ELSE NthAncestor(hashes[p].prev_block, n - 1)

\* The sum of the targets of p and its ancestors, n headers in all.
RECURSIVE SumOfTargets(_, _)
SumOfTargets(p, n) ==
  IF n = 0 THEN 0
  ELSE hsk_pow_to_target(hashes[p].bits).target
         + SumOfTargets(hashes[p].prev_block, n - 1)

\* The windowed retarget for prev of height HSK_TARGET_WINDOW or more: the
\* mean of the window's targets scaled by the dampened, clamped difference of
\* the median-time-pasts of prev and of its HSK_TARGET_WINDOW-th ancestor.
WindowedBits(prev) ==
  LET diff == hsk_chain_get_mtp(hashes, prev)
                - hsk_chain_get_mtp(hashes, NthAncestor(prev, HSK_TARGET_WINDOW))
      actual == HSK_TARGET_TIMESPAN + CDiv(diff - HSK_TARGET_TIMESPAN, 4)
      clamped == IF actual < HSK_MIN_ACTUAL THEN HSK_MIN_ACTUAL
                 ELSE IF actual > HSK_MAX_ACTUAL THEN HSK_MAX_ACTUAL ELSE actual
      target == ((SumOfTargets(prev, HSK_TARGET_WINDOW) \div HSK_TARGET_WINDOW)
                   * clamped) \div HSK_TARGET_TIMESPAN
  IN IF target > HSK_LIMIT THEN HSK_BITS ELSE hsk_pow_to_bits(target)

\* C15 as claimed: the retarget falls back to the default for the length of
\* the chain exactly when prev.height < HSK_TARGET_WINDOW - 1.
C15_FallbackBelowWindowLessOne ==
  \A prev \in DOMAIN hashes :
    FallsBack(prev) <=> hashes[prev].height < HSK_TARGET_WINDOW - 1

\* C15 amended: the retarget falls back to the default for the length of the
\* chain exactly when prev.height < HSK_TARGET_WINDOW, that is when prev has
\* fewer than HSK_TARGET_WINDOW ancestors; otherwise it computes the windowed
\* retarget from the summed targets of prev and its HSK_TARGET_WINDOW - 1
\* nearest ancestors.
C15_FallbackBelowWindow ==
  \A prev \in DOMAIN hashes :
    /\ FallsBack(prev) <=> hashes[prev].height < HSK_TARGET_WINDOW
    /\ FallsBack(prev) =>
         hsk_chain_retarget(hashes, prev) = [ok |-> TRUE, bits |-> HSK_BITS]
    /\ ~FallsBack(prev) =>
         /\ RetargetWalk(hashes, prev, 0, 0).sum
              = SumOfTargets(prev, HSK_TARGET_WINDOW)
         /\ hsk_chain_retarget(hashes, prev).ok =>
              hsk_chain_retarget(hashes, prev).bits = WindowedBits(prev)

\* A header of height HSK_TARGET_WINDOW whose windowed retarget is not the
\* default has a child accepted with those bits, and a header of height
\* HSK_TARGET_WINDOW - 1 has a child, accepted with the default at a time
\* that does not reset the target.
C15_Witness ==
  /\ \E p, q \in DOMAIN hashes :
       /\ hashes[p].height = HSK_TARGET_WINDOW
       /\ hashes[q].prev_block = p
       /\ hsk_chain_retarget(hashes, p).bits # HSK_BITS
       /\ hashes[q].bits = hsk_chain_retarget(hashes, p).bits
  /\ \E p, q \in DOMAIN hashes :
       /\ hashes[p].height = HSK_TARGET_WINDOW - 1
       /\ hashes[q].prev_block = p
       /\ hashes[q].time <= hashes[p].time + HSK_TARGET_SPACING * 2
       /\ hashes[q].bits = HSK_BITS

\* --------------------------------------------------------------------- C16

\* The timestamps of the header p of hashes and of its ancestors, at most n.
RECURSIVE TimesBack(_, _)
TimesBack(p, n) ==
  IF n = 0 \/ p \notin DOMAIN hashes THEN <<>>
  ELSE <<hashes[p].time>> \o TimesBack(hashes[p].prev_block, n - 1)

\* The element at index size/2, counted from 0, of the ascending timestamps of
\* prev and up to 10 of its ancestors.
MedianTimePast(prev) ==
  LET sorted == SortAsc(TimesBack(prev, 11))
  IN sorted[(Len(sorted) \div 2) + 1]

\* C16: a header is refused as too new exactly when its time is greater than
\* now + 2h, so one of time now + 2h is not; a header of known prev that passes
\* the checks before is refused as too old exactly when its time is at most
\* the median-time-past of prev, so one of time equal to it is.
C16_TimeBoundaries ==
  \A h \in Pool, now \in NowSet, oom \in OomPoints :
    LET r == hsk_chain_add(chain, h, now, oom)
    IN /\ h.time = now + TwoHours => r.rc # HSK_ETIMETOONEW
       /\ oom # "clone" =>
            /\ r.rc = HSK_ETIMETOONEW <=> h.time > now + TwoHours
            /\ (PassesFirstChecks(h, now) /\ h.prev_block \in DOMAIN hashes) =>
                 /\ h.time = MedianTimePast(h.prev_block) => r.rc = HSK_ETIMETOOOLD
                 /\ r.rc = HSK_ETIMETOOOLD <=> h.time <= MedianTimePast(h.prev_block)

\* On the long chain, whose last header has the time now + 2h at best: the
\* header at the median-time-past of the last header, the sixth of eleven
\* timestamps, was refused as too old and the header one second later is
\* stored at height 13.
C16_Witness ==
  /\ mode = "long"
  /\ rc = HSK_ETIMETOOOLD
  /\ LongEnd \in DOMAIN hashes
  /\ MedianTimePast(LongEnd) = GenesisTime + LongMtp
  /\ Len(TimesBack(LongEnd, 11)) = 11
  /\ \E p \in DOMAIN hashes :
       /\ hashes[p].prev_block = LongEnd
       /\ hashes[p].time = GenesisTime + LongMtp + 1

\* --------------------------------------------------------------------- C17

\* The clone of the candidate h with its height set, as hsk_chain_add hands it
\* to hsk_chain_reorganize.
Candidate(h) ==
  [hsk_header_clone(h) EXCEPT !.height = hashes[h.prev_block].height + 1]

\* The headers of hashes together with the candidate h.
WithCandidate(h) == hsk_map_set(hashes, hsk_header_cache(h), Candidate(h))

\* C17: every header of hashes has an unbroken prev_block chain in hashes
\* back to genesis, and for the tip and any candidate whose prev_block is a key
\* of hashes hsk_chain_find_fork returns a header, not NULL, which is the
\* common ancestor of the two of the greatest height.
C17_ForkIsCommonAncestor ==
  /\ \A p \in DOMAIN hashes : genesis \in Ancestors(hashes, p)
  /\ \A h \in Pool :
       h.prev_block \in DOMAIN hashes =>
         LET fork == hsk_chain_find_fork(WithCandidate(h), hashes, tip,
                                         hsk_header_cache(h))
         IN /\ fork # NULL
            /\ fork = CommonAncestor(WithCandidate(h), tip, hsk_header_cache(h))

\* After a reorganization a candidate is at hand that is not stored and whose
\* branch leaves the tip's two or more links above genesis, below the tip.
C17_Witness ==
  /\ rc = HSK_SUCCESS
  /\ reorganizing
  /\ \E h \in Pool :
       /\ hsk_header_cache(h) \notin DOMAIN hashes
       /\ h.prev_block \in DOMAIN hashes
       /\ h.prev_block \notin Ancestors(hashes, tip)
       /\ LET fork == hsk_chain_find_fork(WithCandidate(h), hashes, tip,
                                          hsk_header_cache(h))
          IN /\ fork # NULL
             /\ hashes[fork].height >= 2
             /\ hashes[fork].height < hashes[tip].height

\* --------------------------------------------------------------------- C18

\* C18: a call that returns an error has released its clone exactly once and
\* has left the header's entries in the maps as they were; a call that returns
\* SUCCESS has not released the clone, which is then owned by exactly one of
\* hashes and orphans.  Stated of every call that made a clone.
C18_CloneOwnedOrReleasedOnce ==
  \A h \in Pool, now \in NowSet, oom \in OomPoints \ {"clone"} :
    LET r == hsk_chain_add(chain, h, now, oom)
        hash == hsk_header_cache(h)
    IN r.rc # ABORTED =>
         IF r.rc = HSK_SUCCESS
           THEN /\ r.freed = 0
                /\ (hash \in DOMAIN r.hashes) # (hash \in DOMAIN r.orphans)
           ELSE /\ r.freed = 1
                /\ hash \in DOMAIN r.hashes <=> hash \in DOMAIN hashes
                /\ hash \in DOMAIN r.orphans <=> hash \in DOMAIN orphans
                /\ hash \in Range(r.heights) <=> hash \in Range(heights)
                /\ hash \in Range(r.prevs) <=> hash \in Range(prevs)

\* C18, the part violated: no call that returned an error released its clone
\* more than once.
C18_NeverReleasedTwice == freed <= 1

\* --------------------------------------------------------------------- C19

\* C19: along every prev_block chain of hashes the median-time-past does not
\* decrease, so for every header of hashes as prev the difference
\* hsk_chain_retarget takes between the median-time-pasts of prev and of the
\* first header of its window is not negative and assert(actual >= 0) holds.
C19_MtpMonotone ==
  /\ \A p \in DOMAIN hashes \ {genesis} :
       MedianTimePast(p) >= MedianTimePast(hashes[p].prev_block)
  /\ \A p \in DOMAIN hashes :
       /\ hsk_chain_retarget(hashes, p).ok
       /\ ~FallsBack(p) =>
            /\ MedianTimePast(p)
                 >= MedianTimePast(NthAncestor(p, HSK_TARGET_WINDOW))
            /\ RetargetActual(hashes, NthAncestor(p, HSK_TARGET_WINDOW), p) >= 0

\* The tip is a header of height 13 with a time before its parent's, accepted
\* after a retarget over a full window of eleven timestamps; its
\* median-time-past is above its parent's.
C19_Witness ==
  /\ rc = HSK_SUCCESS
  /\ hashes[tip].height = 13
  /\ hashes[tip].time < hashes[hashes[tip].prev_block].time
  /\ Len(TimesBack(hashes[tip].prev_block, 11)) = 11
  /\ ~FallsBack(hashes[tip].prev_block)
  /\ MedianTimePast(tip) > MedianTimePast(hashes[tip].prev_block)

\* --------------------------------------------------------------------- C20

\* The scratch next pointer of every header of hashes is NULL once a call has
\* returned.
NextCleared == rc # ABORTED => \A p \in DOMAIN hashes : hashes[p].next = NULL

\* Where heights is defined at n and at n - 1, the header at n has the header
\* at n - 1 as its prev_block.
LinkedWhereDefined ==
  \A n \in DOMAIN heights :
    (n - 1) \in DOMAIN heights =>
      /\ heights[n] \in DOMAIN hashes
      /\ hashes[heights[n]].prev_block = heights[n - 1]

\* C20: heights describes one linked path, for every n of 1..tip.height the
\* prev_block of heights[n] is the hash of heights[n - 1], and after every
\* call of hsk_chain_add that returned the scratch next pointer of every header
\* of hashes is NULL.
C20_HeightsLinkedNextCleared ==
  /\ \A n \in 1..hashes[tip].height :
       /\ n \in DOMAIN heights
       /\ (n - 1) \in DOMAIN heights
       /\ heights[n] \in DOMAIN hashes
       /\ hashes[heights[n]].prev_block = heights[n - 1]
  /\ NextCleared

====
